---- MODULE Spec2Model ----
(***************************************************************************)
(* Duties checker of duties-indexer: the Run loop (ticker / ctx.Done       *)
(* select), checkLatestFinalizedEpoch, checkProposals, checkAttestations   *)
(* and the bitfield / tracking helpers of the services package.            *)
(***************************************************************************)
EXTENDS Integers, Sequences, FiniteSets, TLC

\* ------------------------------------------------------------------------
\* Program constants
\* ------------------------------------------------------------------------
SlotsPerEpoch == 32

\* preloadSlotAttestations reads up to maxSlot + 32
InclusionDistance == 32

\* time.NewTicker delivers on a channel of capacity one
TickerCap == 1

\* ------------------------------------------------------------------------
\* Bounds of the model
\* ------------------------------------------------------------------------
\* finalized epochs returned by the beacon node are 0..MaxEpoch
MaxEpoch == 1

\* ------------------------------------------------------------------------
\* Generic helpers
\* ------------------------------------------------------------------------
Range(s) == {s[i] : i \in 1..Len(s)}

Pow2(n) == IF n = 0 THEN 1 ELSE IF n = 1 THEN 2 ELSE IF n = 2 THEN 4
           ELSE IF n = 3 THEN 8 ELSE IF n = 4 THEN 16 ELSE IF n = 5 THEN 32
           ELSE IF n = 6 THEN 64 ELSE 128

EmptyMap == [x \in {} |-> 0]

\* ------------------------------------------------------------------------
\* Bitfield helpers (byte-packed, little-endian inside each byte)
\* ------------------------------------------------------------------------
\* variant: the bits of a byte are numbered from its high end
isBitSetMsbFirst(bits, index) ==
    LET byteIndex == index \div 8
        bitIndex  == index % 8
    IN  IF byteIndex >= Len(bits) THEN FALSE
        ELSE ((bits[byteIndex + 1] \div Pow2(7 - bitIndex)) % 2) = 1

isBitSet(bits, index) ==
    LET byteIndex == index \div 8
        bitIndex  == index % 8
    IN  IF byteIndex >= Len(bits) THEN FALSE
        ELSE ((bits[byteIndex + 1] \div Pow2(bitIndex)) % 2) = 1

RECURSIVE TrueBitsFrom(_, _)
TrueBitsFrom(bits, i) ==
    IF i >= Len(bits) * 8 THEN <<>>
    ELSE IF isBitSet(bits, i) THEN <<i>> \o TrueBitsFrom(bits, i + 1)
    ELSE TrueBitsFrom(bits, i + 1)

getTrueBitIndices(bits) == TrueBitsFrom(bits, 0)

\* ------------------------------------------------------------------------
\* Tracking map: a Go map ValidatorIndex -> Epoch.  A Go map read of a key
\* that is not present yields the zero value of the element type.
\* ------------------------------------------------------------------------
MapGet(m, k) == IF k \in DOMAIN m THEN m[k] ELSE 0

MapPut(m, k, v) == [x \in (DOMAIN m) \cup {k} |-> IF x = k THEN v ELSE m[x]]

\* variant: a validator recorded for an earlier epoch counts as checked
wasCheckedThisEpochOrEarlier(m, index, epoch) == MapGet(m, index) <= epoch

wasCheckedThisEpoch(m, index, epoch) == MapGet(m, index) = epoch

\* variant: an entry that is there is kept
markCheckedThisEpochOnce(m, index, epoch) ==
    IF index \in DOMAIN m THEN m ELSE MapPut(m, index, epoch)

markCheckedThisEpoch(m, index, epoch) == MapPut(m, index, epoch)

\* variant: the test of the filter is inverted
RECURSIVE getValidatorsToCheckInverted(_, _, _)
getValidatorsToCheckInverted(m, indices, epoch) ==
    IF indices = <<>> THEN <<>>
    ELSE IF ~wasCheckedThisEpoch(m, Head(indices), epoch)
         THEN getValidatorsToCheckInverted(m, Tail(indices), epoch)
         ELSE <<Head(indices)>> \o getValidatorsToCheckInverted(m, Tail(indices), epoch)

RECURSIVE getValidatorsToCheck(_, _, _)
getValidatorsToCheck(m, indices, epoch) ==
    IF indices = <<>> THEN <<>>
    ELSE IF wasCheckedThisEpoch(m, Head(indices), epoch)
         THEN getValidatorsToCheck(m, Tail(indices), epoch)
         ELSE <<Head(indices)>> \o getValidatorsToCheck(m, Tail(indices), epoch)

\* ------------------------------------------------------------------------
\* Events written to the log: verdicts and diagnostics
\* ------------------------------------------------------------------------
Event(kind, validator, slot) ==
    [kind |-> kind, validator |-> validator, slot |-> slot]

\* ------------------------------------------------------------------------
\* checkProposals: the loop over the proposer duties.  outcomes[i] is what
\* DidProposeBlock answers for duties[i]: "true", "false" or "err".
\* ------------------------------------------------------------------------
\* variant: a failed query ends the loop
RECURSIVE ProposalEventsBreak(_, _)
ProposalEventsBreak(duties, outcomes) ==
    IF duties = <<>> THEN <<>>
    ELSE LET duty == Head(duties)
             rest == ProposalEventsBreak(Tail(duties), Tail(outcomes))
         IN  IF Head(outcomes) = "err"
             THEN <<Event("ProposalQueryError", duty.ValidatorIndex, duty.Slot)>>
             ELSE IF Head(outcomes) = "true"
             THEN <<Event("ProposalConfirmed", duty.ValidatorIndex, duty.Slot)>> \o rest
             ELSE <<Event("ProposalMissed", duty.ValidatorIndex, duty.Slot)>> \o rest

RECURSIVE ProposalEvents(_, _)
ProposalEvents(duties, outcomes) ==
    IF duties = <<>> THEN <<>>
    ELSE LET duty == Head(duties)
             rest == ProposalEvents(Tail(duties), Tail(outcomes))
         IN  IF Head(outcomes) = "err"
             THEN <<Event("ProposalQueryError", duty.ValidatorIndex, duty.Slot)>> \o rest
             ELSE IF Head(outcomes) = "true"
             THEN <<Event("ProposalConfirmed", duty.ValidatorIndex, duty.Slot)>> \o rest
             ELSE <<Event("ProposalMissed", duty.ValidatorIndex, duty.Slot)>> \o rest

\* ------------------------------------------------------------------------
\* Beacon chain blocks as seen through GetBlockAttestations: chain maps a
\* slot to [err, atts]; a slot without an entry has no block and answers
\* with no attestations and no error.
\* ------------------------------------------------------------------------
GetBlockAttestations(chain, slot) ==
    IF slot \in DOMAIN chain THEN chain[slot]
    ELSE [err |-> FALSE, atts |-> <<>>]

\* variant: the loop stops one slot early (< instead of <=)
PreloadSlotsShort(minSlot, maxSlot) ==
    [i \in 1..(maxSlot + InclusionDistance - minSlot - 1) |-> minSlot + i]

\* the slots preloadSlotAttestations queries, in order
PreloadSlots(minSlot, maxSlot) ==
    [i \in 1..(maxSlot + InclusionDistance - minSlot) |-> minSlot + i]

\* variant: the answer of a failed query is stored all the same
preloadSlotAttestationsNoSkip(chain, minSlot, maxSlot) ==
    [slot \in Range(PreloadSlots(minSlot, maxSlot))
        |-> GetBlockAttestations(chain, slot).atts]

preloadSlotAttestations(chain, minSlot, maxSlot) ==
    LET slots == Range(PreloadSlots(minSlot, maxSlot))
    IN  [slot \in {s \in slots : ~GetBlockAttestations(chain, s).err}
            |-> GetBlockAttestations(chain, slot).atts]

\* the warnings of preloadSlotAttestations: one per failing slot, in the
\* order of the queries
PreloadEvents(chain, slots) ==
    LET Failing(slot) == GetBlockAttestations(chain, slot).err
        failed == SelectSeq(slots, Failing)
    IN  [i \in 1..Len(failed) |-> Event("AttestationsQueryError", 0, failed[i])]

\* ------------------------------------------------------------------------
\* checkAttestations: decoding of one attestation
\* ------------------------------------------------------------------------
\* variant: the running offset is not advanced after a committee
RECURSIVE WalkCommitteesNoAdvance(_, _, _, _, _)
WalkCommitteesNoAdvance(att, slotCommittees, aggregatedCommittees, bitBase, tracked) ==
    IF aggregatedCommittees = <<>>
    THEN [attested |-> {}, events |-> <<>>]
    ELSE LET commIdx    == Head(aggregatedCommittees)
             ok         == commIdx \in DOMAIN slotCommittees
             validators == IF ok THEN slotCommittees[commIdx] ELSE <<>>
             rest       == WalkCommitteesNoAdvance(att, slotCommittees,
                               Tail(aggregatedCommittees), bitBase, tracked)
         IN  IF ~ok \/ Len(validators) = 0
             THEN [attested |-> rest.attested,
                   events   |-> <<Event("CommitteeNotFound", commIdx, att.DataSlot)>>
                                    \o rest.events]
             ELSE [attested |-> {validators[localPos + 1] : localPos \in
                                   {p \in 0..(Len(validators) - 1) :
                                       /\ isBitSet(att.AggregationBits, bitBase + p)
                                       /\ validators[p + 1] \in tracked}}
                                 \cup rest.attested,
                   events   |-> rest.events]

\* variant: a committee that is not found is passed over without a warning
RECURSIVE WalkCommitteesSilent(_, _, _, _, _)
WalkCommitteesSilent(att, slotCommittees, aggregatedCommittees, bitBase, tracked) ==
    IF aggregatedCommittees = <<>>
    THEN [attested |-> {}, events |-> <<>>]
    ELSE LET commIdx    == Head(aggregatedCommittees)
             ok         == commIdx \in DOMAIN slotCommittees
             validators == IF ok THEN slotCommittees[commIdx] ELSE <<>>
         IN  IF ~ok \/ Len(validators) = 0
             THEN WalkCommitteesSilent(att, slotCommittees,
                      Tail(aggregatedCommittees), bitBase, tracked)
             ELSE LET here == {validators[localPos + 1] : localPos \in
                                 {p \in 0..(Len(validators) - 1) :
                                     /\ isBitSet(att.AggregationBits, bitBase + p)
                                     /\ validators[p + 1] \in tracked}}
                      rest == WalkCommitteesSilent(att, slotCommittees,
                                  Tail(aggregatedCommittees),
                                  bitBase + Len(validators), tracked)
                  IN  [attested |-> here \cup rest.attested,
                       events   |-> rest.events]

\* variant: a committee that is not found ends the walk (break)
RECURSIVE WalkCommitteesBreak(_, _, _, _, _)
WalkCommitteesBreak(att, slotCommittees, aggregatedCommittees, bitBase, tracked) ==
    IF aggregatedCommittees = <<>>
    THEN [attested |-> {}, events |-> <<>>]
    ELSE LET commIdx    == Head(aggregatedCommittees)
             ok         == commIdx \in DOMAIN slotCommittees
             validators == IF ok THEN slotCommittees[commIdx] ELSE <<>>
         IN  IF ~ok \/ Len(validators) = 0
             THEN [attested |-> {},
                   events   |-> <<Event("CommitteeNotFound", commIdx, att.DataSlot)>>]
             ELSE LET here == {validators[localPos + 1] : localPos \in
                                 {p \in 0..(Len(validators) - 1) :
                                     /\ isBitSet(att.AggregationBits, bitBase + p)
                                     /\ validators[p + 1] \in tracked}}
                      rest == WalkCommitteesBreak(att, slotCommittees,
                                  Tail(aggregatedCommittees),
                                  bitBase + Len(validators), tracked)
                  IN  [attested |-> here \cup rest.attested,
                       events   |-> rest.events]

\* the walk over the aggregated committees, from running offset bitBase
RECURSIVE WalkCommittees(_, _, _, _, _)
WalkCommittees(att, slotCommittees, aggregatedCommittees, bitBase, tracked) ==
    IF aggregatedCommittees = <<>>
    THEN [attested |-> {}, events |-> <<>>]
    ELSE LET commIdx    == Head(aggregatedCommittees)
             ok         == commIdx \in DOMAIN slotCommittees
             validators == IF ok THEN slotCommittees[commIdx] ELSE <<>>
         IN  IF ~ok \/ Len(validators) = 0
             THEN LET rest == WalkCommittees(att, slotCommittees,
                                  Tail(aggregatedCommittees), bitBase, tracked)
                  IN  [attested |-> rest.attested,
                       events   |-> <<Event("CommitteeNotFound", commIdx, att.DataSlot)>>
                                        \o rest.events]
             ELSE LET here == {validators[localPos + 1] : localPos \in
                                 {p \in 0..(Len(validators) - 1) :
                                     /\ isBitSet(att.AggregationBits, bitBase + p)
                                     /\ validators[p + 1] \in tracked}}
                      rest == WalkCommittees(att, slotCommittees,
                                  Tail(aggregatedCommittees),
                                  bitBase + Len(validators), tracked)
                  IN  [attested |-> here \cup rest.attested,
                       events   |-> rest.events]

\* variant: the committee bits are decoded, and an attestation without
\* committee is dropped, before the committees of the data slot are looked up
ProcessAttestationDecodeFirst(att, epochCommittees, tracked, startSlot, endSlot) ==
    LET dataSlot == att.DataSlot
        aggregatedCommittees == getTrueBitIndices(att.CommitteeBits)
    IN  IF dataSlot < startSlot \/ dataSlot > endSlot
        THEN [attested |-> {}, events |-> <<>>]
        ELSE IF Len(aggregatedCommittees) = 0
        THEN [attested |-> {}, events |-> <<>>]
        ELSE IF dataSlot \notin DOMAIN epochCommittees
        THEN [attested |-> {},
              events |-> <<Event("NoCommitteesForSlot", 0, dataSlot)>>]
        ELSE WalkCommittees(att, epochCommittees[dataSlot],
                            aggregatedCommittees, 0, tracked)

\* variant: the data slot is not compared with the slots of the epoch
ProcessAttestationNoRange(att, epochCommittees, tracked, startSlot, endSlot) ==
    LET dataSlot == att.DataSlot
        aggregatedCommittees == getTrueBitIndices(att.CommitteeBits)
    IN  IF dataSlot \notin DOMAIN epochCommittees
        THEN [attested |-> {},
              events |-> <<Event("NoCommitteesForSlot", 0, dataSlot)>>]
        ELSE IF Len(aggregatedCommittees) = 0
        THEN [attested |-> {}, events |-> <<>>]
        ELSE WalkCommittees(att, epochCommittees[dataSlot],
                            aggregatedCommittees, 0, tracked)

ProcessAttestation(att, epochCommittees, tracked, startSlot, endSlot) ==
    LET dataSlot == att.DataSlot
        aggregatedCommittees == getTrueBitIndices(att.CommitteeBits)
    IN  IF dataSlot < startSlot \/ dataSlot > endSlot
        THEN [attested |-> {}, events |-> <<>>]
        ELSE IF dataSlot \notin DOMAIN epochCommittees
        THEN [attested |-> {},
              events |-> <<Event("NoCommitteesForSlot", 0, dataSlot)>>]
        ELSE IF Len(aggregatedCommittees) = 0
        THEN [attested |-> {}, events |-> <<>>]
        ELSE WalkCommittees(att, epochCommittees[dataSlot],
                            aggregatedCommittees, 0, tracked)

\* the attestations of one block, in order
\* variant: an attestation whose data slot has no committees ends the block
RECURSIVE ProcessBlockBreak(_, _, _, _, _)
ProcessBlockBreak(atts, epochCommittees, tracked, startSlot, endSlot) ==
    IF atts = <<>> THEN [attested |-> {}, events |-> <<>>]
    ELSE LET one  == ProcessAttestation(Head(atts), epochCommittees, tracked,
                                        startSlot, endSlot)
             stop == /\ startSlot <= Head(atts).DataSlot
                     /\ Head(atts).DataSlot <= endSlot
                     /\ Head(atts).DataSlot \notin DOMAIN epochCommittees
             rest == IF stop THEN [attested |-> {}, events |-> <<>>]
                     ELSE ProcessBlockBreak(Tail(atts), epochCommittees, tracked,
                                            startSlot, endSlot)
         IN  [attested |-> one.attested \cup rest.attested,
              events   |-> one.events \o rest.events]

RECURSIVE ProcessBlock(_, _, _, _, _)
ProcessBlock(atts, epochCommittees, tracked, startSlot, endSlot) ==
    IF atts = <<>> THEN [attested |-> {}, events |-> <<>>]
    ELSE LET one  == ProcessAttestation(Head(atts), epochCommittees, tracked,
                                        startSlot, endSlot)
             rest == ProcessBlock(Tail(atts), epochCommittees, tracked,
                                  startSlot, endSlot)
         IN  [attested |-> one.attested \cup rest.attested,
              events   |-> one.events \o rest.events]

\* the blocks of the window in the order the map iteration visits them
RECURSIVE ScanAttestations(_, _, _, _, _, _)
ScanAttestations(order, slotAttestations, epochCommittees, tracked, startSlot, endSlot) ==
    IF order = <<>> THEN [attested |-> {}, events |-> <<>>]
    ELSE LET one  == ProcessBlock(slotAttestations[Head(order)], epochCommittees,
                                  tracked, startSlot, endSlot)
             rest == ScanAttestations(Tail(order), slotAttestations,
                                      epochCommittees, tracked, startSlot, endSlot)
         IN  [attested |-> one.attested \cup rest.attested,
              events   |-> one.events \o rest.events]

\* variant: only a confirmed duty marks its validator
RECURSIVE ResolveDutiesMarkConfirmed(_, _, _, _)
ResolveDutiesMarkConfirmed(duties, attested, finalizedEpoch, m) ==
    IF duties = <<>> THEN [events |-> <<>>, checkedEpochs |-> m]
    ELSE LET duty == Head(duties)
             ok   == duty.ValidatorIndex \in attested
             rest == ResolveDutiesMarkConfirmed(Tail(duties), attested, finalizedEpoch,
                        IF ok THEN markCheckedThisEpoch(m, duty.ValidatorIndex,
                                                        finalizedEpoch)
                        ELSE m)
             kind == IF ok THEN "AttestationConfirmed" ELSE "AttestationMissed"
         IN  [events |-> <<Event(kind, duty.ValidatorIndex, duty.Slot)>> \o rest.events,
              checkedEpochs |-> rest.checkedEpochs]

\* step 6: one verdict per duty, and the duty's validator is marked
RECURSIVE ResolveDuties(_, _, _, _)
ResolveDuties(duties, attested, finalizedEpoch, m) ==
    IF duties = <<>> THEN [events |-> <<>>, checkedEpochs |-> m]
    ELSE LET duty == Head(duties)
             rest == ResolveDuties(Tail(duties), attested, finalizedEpoch,
                        markCheckedThisEpoch(m, duty.ValidatorIndex, finalizedEpoch))
             kind == IF duty.ValidatorIndex \in attested
                     THEN "AttestationConfirmed" ELSE "AttestationMissed"
         IN  [events |-> <<Event(kind, duty.ValidatorIndex, duty.Slot)>> \o rest.events,
              checkedEpochs |-> rest.checkedEpochs]

\* ------------------------------------------------------------------------
\* Inputs: what the beacon node may answer
\* ------------------------------------------------------------------------
StartSlot(epoch) == epoch * SlotsPerEpoch

EndSlot(epoch) == StartSlot(epoch) + SlotsPerEpoch - 1

RECURSIVE Perms(_)
Perms(S) ==
    IF S = {} THEN {<<>>}
    ELSE UNION {{<<x>> \o p : p \in Perms(S \ {x})} : x \in S}

\* the tracked validator lists the service may be configured with
TrackedChoices == {<<>>, <<1, 5>>}

\* GetFinalizedEpoch: an error (with the zero epoch) or an epoch
FinalizedEpochResults ==
    {[err |-> TRUE, val |-> 0]} \cup {[err |-> FALSE, val |-> e] : e \in 0..MaxEpoch}

\* GetProposerDuties: validator v proposes at the v-th slot after startSlot
ProposerDuty(v, epoch) == [ValidatorIndex |-> v, Slot |-> StartSlot(epoch) + v]

\* no duty, or a duty for each of the validators asked for
ProposerDutyLists(epoch, indices) ==
    {<<>>, [i \in 1..Len(indices) |-> ProposerDuty(indices[i], epoch)]}

DidProposeOutcomes(duties) == [1..Len(duties) -> {"true", "false", "err"}]

\* committee layouts of one slot: committee index -> ordered validators
CanonLayout == (0 :> <<1, 2, 3>>) @@ (1 :> <<4, 5, 6, 7, 8>>)

SmallLayout == (0 :> <<5>>) @@ (1 :> <<2, 1>>)

MissingLayout == (1 :> <<4, 5, 6, 7, 8>>)

EmptyLayout == (0 :> <<>>) @@ (1 :> <<4, 5, 6, 7, 8>>)

Layouts == {CanonLayout, SmallLayout, MissingLayout, EmptyLayout}

\* GetValidatorDutiesBatch: duties follow the canonical layout
AttesterDuty(v, epoch) ==
    [ValidatorIndex        |-> v,
     Slot                  |-> StartSlot(epoch),
     CommitteeIndex        |-> IF v <= 3 THEN 0 ELSE 1,
     ValidatorCommitteeIdx |-> IF v <= 3 THEN v - 1 ELSE v - 4]

\* no duty, a duty for the first of the validators asked for, or a duty for
\* each of them, in the order asked or in the reverse order
Reverse(s) == [i \in 1..Len(s) |-> s[Len(s) + 1 - i]]

AttesterDutyLists(epoch, indices) ==
    {[i \in 1..Len(l) |-> AttesterDuty(l[i], epoch)] :
        l \in {<<>>, SubSeq(indices, 1, 1), indices, Reverse(indices)}}

Attestation(dataSlot, committeeBits, aggregationBits) ==
    [DataSlot |-> dataSlot, CommitteeBits |-> committeeBits,
     AggregationBits |-> aggregationBits]

Block(err, atts) == [err |-> err, atts |-> atts]

CommitteeBitsChoices == {<<0>>, <<1>>, <<2>>, <<3>>}

AggregationBitsChoices == {<<1>>, <<2>>, <<4>>, <<16>>, <<17>>}

\* included-block offsets from startSlot around the ends of the window
IncludedOffsets == {0, 1, 33, 34, 63, 64}

DataSlotChoices(epoch) ==
    {s \in {StartSlot(epoch) - 1, StartSlot(epoch), EndSlot(epoch),
            EndSlot(epoch) + 1} : s >= 0}

FullMap(epoch, layout) ==
    [d \in {StartSlot(epoch), EndSlot(epoch)} |-> layout]

OneBlock(slot, err, att) == slot :> Block(err, <<att>>)

\* (chain, committees) pairs, in families: one attestation in the first
\* block of the window, with every bitfield over the complete layouts and
\* with some bitfields over the incomplete ones; one fully set attestation
\* in a block at the edges of the window, with and without a failing query,
\* or, with and without committee bits, with a data slot at the edges of the
\* epoch; several attestations in several blocks.
DecodeCases(epoch) ==
    {[chain |-> OneBlock(StartSlot(epoch) + 1, FALSE,
                         Attestation(StartSlot(epoch), cb, ab)),
      committees |-> FullMap(epoch, L)] :
        cb \in CommitteeBitsChoices, ab \in AggregationBitsChoices,
        L \in {CanonLayout, SmallLayout}}

DegradedCases(epoch) ==
    {[chain |-> OneBlock(StartSlot(epoch) + 1, FALSE,
                         Attestation(StartSlot(epoch), cb, ab)),
      committees |-> cm] :
        cb \in {<<0>>, <<1>>, <<3>>}, ab \in {<<2>>, <<17>>},
        cm \in {EmptyMap, FullMap(epoch, MissingLayout),
                FullMap(epoch, EmptyLayout)}}

WindowCases(epoch) ==
    {[chain |-> OneBlock(StartSlot(epoch) + off, err,
                         Attestation(StartSlot(epoch), <<3>>, <<17>>)),
      committees |-> FullMap(epoch, CanonLayout)] :
        off \in IncludedOffsets, err \in BOOLEAN}
    \cup
    {[chain |-> OneBlock(StartSlot(epoch) + 33, FALSE,
                         Attestation(ds, cb, <<17>>)),
      committees |-> FullMap(epoch, CanonLayout)] :
        ds \in DataSlotChoices(epoch), cb \in {<<3>>, <<0>>}}

MultiCases(epoch) ==
    {[chain |-> OneBlock(StartSlot(epoch) + 1, err,
                         Attestation(StartSlot(epoch), <<1>>, <<1>>))
                @@ ((StartSlot(epoch) + 2) :>
                    Block(FALSE, <<Attestation(StartSlot(epoch), <<2>>, <<0>>),
                                   Attestation(EndSlot(epoch), <<3>>, ab)>>)),
      committees |-> FullMap(epoch, L)] :
        err \in BOOLEAN, ab \in {<<16>>, <<1>>}, L \in {CanonLayout}}

\* one attestation whose bitfields are empty, use the high bit of a byte,
\* or have a second byte
CodecCases(epoch) ==
    {[chain |-> OneBlock(StartSlot(epoch) + 1, FALSE,
                         Attestation(StartSlot(epoch), b[1], b[2])),
      committees |-> FullMap(epoch, CanonLayout)] :
        b \in {<< <<>>, <<>> >>, << <<128>>, <<255>> >>, << <<3>>, <<>> >>,
                << <<3, 1>>, <<0, 1>> >>, << <<3>>, <<145, 2>> >>}}

\* committees for the last slot of the epoch only; a block with an
\* attestation for the first slot and one for the last, and a block with
\* one more for the last
PartialMapCases(epoch) ==
    {[chain |-> ((StartSlot(epoch) + 2) :>
                    Block(FALSE, <<Attestation(StartSlot(epoch), <<3>>, <<17>>),
                                   Attestation(EndSlot(epoch), <<3>>, <<1>>)>>))
                @@ OneBlock(StartSlot(epoch) + 3, FALSE,
                            Attestation(EndSlot(epoch), <<3>>, <<16>>)),
      committees |-> (EndSlot(epoch) :> CanonLayout)]}

ChainCases(epoch) ==
    DecodeCases(epoch) \cup DegradedCases(epoch) \cup WindowCases(epoch)
        \cup MultiCases(epoch) \cup CodecCases(epoch) \cup PartialMapCases(epoch)

\* the orders in which the iteration over slotAttestations may visit the
\* blocks that hold attestations (blocks without attestations are skipped
\* at once, wherever they come)
ScanOrders(slotAttestations) ==
    Perms({s \in DOMAIN slotAttestations : Len(slotAttestations[s]) > 0})

\* ------------------------------------------------------------------------
\* The functions of the checker, as functions of what the beacon node answers
\* ------------------------------------------------------------------------
Query(op, arg) == [op |-> op, arg |-> arg]

\* variant: lastFinalizedEpoch is assigned before the error is looked at
ObserveEpochEager(last, res) ==
    [proceed |-> ~res.err /\ res.val # last, lastFinalizedEpoch |-> res.val]

\* variant: the epoch is not compared with the last one
ObserveEpochNoSkip(last, res) ==
    IF res.err THEN [proceed |-> FALSE, lastFinalizedEpoch |-> last]
    ELSE [proceed |-> TRUE, lastFinalizedEpoch |-> res.val]

\* variant: lastFinalizedEpoch is left for the end of a pass that succeeds
ObserveEpochDeferred(last, res) ==
    IF res.err THEN [proceed |-> FALSE, lastFinalizedEpoch |-> last]
    ELSE IF res.val = last THEN [proceed |-> FALSE, lastFinalizedEpoch |-> last]
    ELSE [proceed |-> TRUE, lastFinalizedEpoch |-> last]

\* checkLatestFinalizedEpoch up to the update of lastFinalizedEpoch
ObserveEpoch(last, res) ==
    IF res.err THEN [proceed |-> FALSE, lastFinalizedEpoch |-> last]
    ELSE IF res.val = last THEN [proceed |-> FALSE, lastFinalizedEpoch |-> last]
    ELSE [proceed |-> TRUE, lastFinalizedEpoch |-> res.val]

\* variant: the pass is run without looking at the lists
PassRunsUnguarded(proceed, indices, toCheck) == proceed

\* checkLatestFinalizedEpoch after the update: the pass is run when there
\* are tracked validators and the filter leaves some of them
PassRuns(proceed, indices, toCheck) ==
    proceed /\ Len(indices) # 0 /\ Len(toCheck) # 0

\* variant: the check is started with a go statement, the loop selects on
LoopAfterDispatchAsync == "select"

\* where Run is while checkLatestFinalizedEpoch executes: the call is
\* synchronous, the loop is inside it
LoopAfterDispatch == "call"

\* the queries DidProposeBlock of checkProposals, one per duty
ProposalQueries(duties) ==
    [i \in 1..Len(duties) |-> Query("DidProposeBlock", duties[i].Slot)]

\* variant: a confirmed proposal marks its validator
RECURSIVE CheckedAfterProposalsMarking(_, _, _, _)
CheckedAfterProposalsMarking(m, duties, outcomes, finalizedEpoch) ==
    IF duties = <<>> THEN m
    ELSE CheckedAfterProposalsMarking(
             IF Head(outcomes) = "true"
             THEN markCheckedThisEpoch(m, Head(duties).ValidatorIndex, finalizedEpoch)
             ELSE m,
             Tail(duties), Tail(outcomes), finalizedEpoch)

\* the tracking map after checkProposals: it is never written there
CheckedAfterProposals(m, duties, outcomes, finalizedEpoch) == m

checkProposalsResult(m, finalizedEpoch, dutiesErr, duties, outcomes) ==
    IF dutiesErr
    THEN [events  |-> <<Event("ProposerDutiesQueryError", 0, 0)>>,
          queries |-> <<Query("GetProposerDuties", finalizedEpoch)>>,
          checkedEpochs |-> m]
    ELSE IF Len(duties) = 0
    THEN [events  |-> <<Event("NoProposerDuties", 0, 0)>>,
          queries |-> <<Query("GetProposerDuties", finalizedEpoch)>>,
          checkedEpochs |-> m]
    ELSE [events  |-> ProposalEvents(duties, outcomes),
          queries |-> <<Query("GetProposerDuties", finalizedEpoch)>>
                          \o ProposalQueries(duties),
          checkedEpochs |-> CheckedAfterProposals(m, duties, outcomes, finalizedEpoch)]

checkAttestationsResult(m, epoch, indices, dutiesErr, duties, commErr, epochCommittees, chain, slotAttestations, order) ==
    LET startSlot == StartSlot(epoch)
        endSlot   == startSlot + SlotsPerEpoch - 1
        tracked   == Range(indices)
        slots     == PreloadSlots(startSlot, endSlot)
        scan    == ScanAttestations(order, slotAttestations, epochCommittees,
                                    tracked, startSlot, endSlot)
        resolve == ResolveDuties(duties, scan.attested, epoch, m)
    IN  IF dutiesErr
        THEN [events  |-> <<Event("AttesterDutiesQueryError", 0, 0)>>,
              queries |-> <<Query("GetValidatorDutiesBatch", epoch)>>,
              attested |-> {}, checkedEpochs |-> m]
        ELSE IF Len(duties) = 0
        THEN [events  |-> <<Event("NoAttesterDuties", 0, 0)>>,
              queries |-> <<Query("GetValidatorDutiesBatch", epoch)>>,
              attested |-> {}, checkedEpochs |-> m]
        ELSE IF commErr
        THEN [events  |-> <<Event("CommitteesQueryError", 0, 0)>>,
              queries |-> <<Query("GetValidatorDutiesBatch", epoch),
                            Query("GetEpochCommittees", epoch)>>,
              attested |-> {}, checkedEpochs |-> m]
        ELSE [events  |-> PreloadEvents(chain, slots)
                              \o scan.events \o resolve.events,
              queries |-> <<Query("GetValidatorDutiesBatch", epoch),
                            Query("GetEpochCommittees", epoch)>>
                          \o [i \in 1..Len(slots) |->
                                Query("GetBlockAttestations", slots[i])],
              attested |-> scan.attested,
              checkedEpochs |-> resolve.checkedEpochs]

\* ------------------------------------------------------------------------
\* State
\* ------------------------------------------------------------------------
VARIABLES
    ValidatorIndices,    \* DutiesChecker.ValidatorIndices
    lastFinalizedEpoch,  \* DutiesChecker.lastFinalizedEpoch
    checkedEpochs,       \* DutiesChecker.checkedEpochs
    tickerC,             \* number of ticks waiting in ticker.C
    ctxDone,             \* ctx.Done() is closed
    loop,                \* Run: "select", "call" or "terminated"
    pc,                  \* checkLatestFinalizedEpoch: "idle", "fetch",
                         \* "proposals" or "attestations"
    inFlight,            \* invocations of checkLatestFinalizedEpoch running
    finalizedEpoch,      \* local finalizedEpoch of the running invocation
    validatorIndices,    \* local validatorIndices (the filtered list)
    call                 \* the last step of a pass: its inputs and outputs
                         \* (retry: the finalized-epoch query before this
                         \* one failed; stale: the last pass failed before
                         \* its scan and no other epoch was answered since;
                         \* movedBack: some answer of the finalized-epoch
                         \* query so far was lower than the one before it;
                         \* successes: the finalized-epoch queries answered
                         \* so far, 2 standing for two or more)

vars == <<ValidatorIndices, lastFinalizedEpoch, checkedEpochs, tickerC, ctxDone,
          loop, pc, inFlight, finalizedEpoch, validatorIndices, call>>

NoCall ==
    [fn |-> "none", retry |-> FALSE, stale |-> FALSE, movedBack |-> FALSE,
     successes |-> 0,
     res |-> [err |-> FALSE, val |-> 0],
     lastBefore |-> 0, checkedBefore |-> EmptyMap,
     epoch |-> 0, indices |-> <<>>,
     dutiesErr |-> FALSE, duties |-> <<>>, outcomes |-> <<>>,
     commErr |-> FALSE, committees |-> EmptyMap, chain |-> EmptyMap,
     order |-> <<>>, attested |-> {}, events |-> <<>>, queries |-> <<>>]

\* variant: no epoch counts as observed before the first answer
NewDutiesCheckerUnset(indices) ==
    [ValidatorIndices |-> indices, checkedEpochs |-> EmptyMap,
     lastFinalizedEpoch |-> -1]

\* the fields NewDutiesChecker sets
NewDutiesChecker(indices) ==
    [ValidatorIndices |-> indices, checkedEpochs |-> EmptyMap,
     lastFinalizedEpoch |-> 0]

Init ==
    /\ \E indices \in TrackedChoices :
          /\ ValidatorIndices = NewDutiesChecker(indices).ValidatorIndices
          /\ lastFinalizedEpoch = NewDutiesChecker(indices).lastFinalizedEpoch
          /\ checkedEpochs = NewDutiesChecker(indices).checkedEpochs
    /\ tickerC = 0
    /\ ctxDone = FALSE
    /\ loop = "select"
    /\ pc = "idle"
    /\ inFlight = 0
    /\ finalizedEpoch = 0
    /\ validatorIndices = <<>>
    /\ call = NoCall

\* ------------------------------------------------------------------------
\* Environment: the timer and the cancellation of the context
\* ------------------------------------------------------------------------
\* the ticker sends without blocking: a tick that finds the channel full is
\* dropped
Tick ==
    /\ loop # "terminated"
    /\ tickerC' = IF tickerC < TickerCap THEN tickerC + 1 ELSE tickerC
    /\ UNCHANGED <<ValidatorIndices, lastFinalizedEpoch, checkedEpochs, ctxDone,
                   loop, pc, inFlight, finalizedEpoch, validatorIndices, call>>

Cancel ==
    /\ ~ctxDone
    /\ ctxDone' = TRUE
    /\ UNCHANGED <<ValidatorIndices, lastFinalizedEpoch, checkedEpochs, tickerC,
                   loop, pc, inFlight, finalizedEpoch, validatorIndices, call>>

\* ------------------------------------------------------------------------
\* Run: the select of the loop.  Both cases may be ready; select then takes
\* either.
\* ------------------------------------------------------------------------
RunSelectTick ==
    /\ loop = "select"
    /\ tickerC > 0
    /\ tickerC' = tickerC - 1
    /\ loop' = LoopAfterDispatch
    /\ pc' = "fetch"
    /\ inFlight' = inFlight + 1
    /\ UNCHANGED <<ValidatorIndices, lastFinalizedEpoch, checkedEpochs, ctxDone,
                   finalizedEpoch, validatorIndices, call>>

\* variant: the cancellation case leaves the select, not the loop
RunSelectDoneBreak ==
    /\ loop = "select"
    /\ ctxDone
    /\ UNCHANGED vars

RunSelectDone ==
    /\ loop = "select"
    /\ ctxDone
    /\ loop' = "terminated"
    /\ UNCHANGED <<ValidatorIndices, lastFinalizedEpoch, checkedEpochs, tickerC,
                   ctxDone, pc, inFlight, finalizedEpoch, validatorIndices, call>>

\* variant: Run handles one tick and returns (no for around the select)
LoopAfterReturnOnce == "terminated"

\* where Run is after checkLatestFinalizedEpoch returned, however it
\* returned: the for statement takes it back to the select
LoopAfterReturn == "select"

\* checkLatestFinalizedEpoch returns to the loop
Return ==
    /\ pc' = "idle"
    /\ loop' = LoopAfterReturn
    /\ inFlight' = inFlight - 1

\* ------------------------------------------------------------------------
\* checkLatestFinalizedEpoch, up to the call of checkProposals
\* ------------------------------------------------------------------------
checkLatestFinalizedEpoch ==
    /\ pc = "fetch"
    /\ \E res \in FinalizedEpochResults :
         LET obs     == ObserveEpoch(lastFinalizedEpoch, res)
             toCheck == getValidatorsToCheck(checkedEpochs, ValidatorIndices, res.val)
             run     == PassRuns(obs.proceed, ValidatorIndices, toCheck)
         IN  /\ lastFinalizedEpoch' = obs.lastFinalizedEpoch
             /\ finalizedEpoch' = IF res.err THEN finalizedEpoch ELSE res.val
             /\ validatorIndices' = IF run THEN toCheck ELSE <<>>
             /\ IF run
                THEN /\ pc' = "proposals"
                     /\ UNCHANGED <<loop, inFlight>>
                ELSE Return
             /\ call' = [NoCall EXCEPT
                           !.fn = "checkLatestFinalizedEpoch",
                           !.retry = (call.fn = "checkLatestFinalizedEpoch" /\ call.res.err),
                           !.stale = /\ \/ /\ call.fn = "checkAttestations"
                                           /\ \/ call.dutiesErr \/ call.commErr
                                              \/ call.duties = <<>>
                                        \/ /\ call.fn = "checkLatestFinalizedEpoch"
                                           /\ call.stale
                                     /\ res.err \/ res.val = lastFinalizedEpoch,
                           !.successes = IF res.err THEN call.successes
                                         ELSE IF call.successes = 0 THEN 1 ELSE 2,
                           !.movedBack = \/ call.movedBack
                                         \/ ~res.err /\ res.val < lastFinalizedEpoch,
                           !.res = res,
                           !.lastBefore = lastFinalizedEpoch,
                           !.checkedBefore = checkedEpochs,
                           !.epoch = res.val,
                           !.indices = IF run THEN toCheck ELSE <<>>,
                           !.events = IF res.err
                                      THEN <<Event("FinalizedEpochQueryError", 0, 0)>>
                                      ELSE <<>>,
                           !.queries = <<Query("GetFinalizedEpoch", 0)>>]
    /\ UNCHANGED <<ValidatorIndices, checkedEpochs, tickerC, ctxDone>>

\* ------------------------------------------------------------------------
\* checkProposals
\* ------------------------------------------------------------------------
\* variant: a failed proposer-duties query ends the whole pass
AfterProposalsAbort(dutiesErr, duties, outcomes) ==
    IF dutiesErr THEN "idle" ELSE "attestations"

\* where checkLatestFinalizedEpoch goes on after checkProposals returned:
\* checkProposals has no result, the call of checkAttestations follows it
AfterProposals(dutiesErr, duties, outcomes) == "attestations"

ProposalInput(dutiesErr, duties, outcomes) ==
    [dutiesErr |-> dutiesErr, duties |-> duties, outcomes |-> outcomes]

\* what the beacon node answers to the queries of checkProposals
ProposalInputs(epoch, indices) ==
    {ProposalInput(TRUE, <<>>, <<>>)}
    \cup
    {ProposalInput(FALSE, d, o) :
        <<d, o>> \in UNION {{<<dd, oo>> : oo \in DidProposeOutcomes(dd)} :
                              dd \in ProposerDutyLists(epoch, indices)}}

\* a few of these answers: the query fails, or every duty is confirmed
FewProposalInputs(epoch, indices) ==
    {in \in ProposalInputs(epoch, indices) :
        in.dutiesErr \/ (Len(in.duties) = Len(indices)
                            /\ \A i \in 1..Len(in.outcomes) : in.outcomes[i] = "true")}

checkProposalsFrom(inputs) ==
    /\ pc = "proposals"
    /\ \E in \in inputs :
         LET r == checkProposalsResult(checkedEpochs, finalizedEpoch,
                                       in.dutiesErr, in.duties, in.outcomes)
         IN  /\ checkedEpochs' = r.checkedEpochs
             /\ call' = [NoCall EXCEPT
                           !.fn = "checkProposals",
                           !.movedBack = call.movedBack,
                           !.successes = call.successes,
                           !.lastBefore = lastFinalizedEpoch,
                           !.checkedBefore = checkedEpochs,
                           !.epoch = finalizedEpoch,
                           !.indices = validatorIndices,
                           !.dutiesErr = in.dutiesErr,
                           !.duties = in.duties,
                           !.outcomes = in.outcomes,
                           !.events = r.events,
                           !.queries = r.queries]
             /\ pc' = AfterProposals(in.dutiesErr, in.duties, in.outcomes)
    /\ UNCHANGED <<ValidatorIndices, lastFinalizedEpoch, tickerC, ctxDone, loop,
                   inFlight, finalizedEpoch, validatorIndices>>

checkProposals == checkProposalsFrom(ProposalInputs(finalizedEpoch, validatorIndices))

checkProposalsFew ==
    checkProposalsFrom(FewProposalInputs(finalizedEpoch, validatorIndices))

\* ------------------------------------------------------------------------
\* checkAttestations; checkLatestFinalizedEpoch returns after it
\* ------------------------------------------------------------------------
AttestationInput(dutiesErr, duties, commErr, committees, chain) ==
    [dutiesErr |-> dutiesErr, duties |-> duties, commErr |-> commErr,
     committees |-> committees, chain |-> chain]

\* what the beacon node answers to the queries of checkAttestations: every
\* chain with the duties of all validators asked for, every list of duties
\* with the chains of several attestations
AttestationInputs(epoch, indices) ==
    {AttestationInput(TRUE, <<>>, FALSE, EmptyMap, EmptyMap),
     AttestationInput(FALSE, <<>>, FALSE, EmptyMap, EmptyMap)}
    \cup
    {AttestationInput(FALSE, [i \in 1..Len(indices) |-> AttesterDuty(indices[i], epoch)],
                      TRUE, EmptyMap, EmptyMap)}
    \cup
    {AttestationInput(FALSE, [i \in 1..Len(indices) |-> AttesterDuty(indices[i], epoch)],
                      FALSE, c.committees, c.chain) :
        c \in ChainCases(epoch)}
    \cup
    {AttestationInput(FALSE, d, FALSE, c.committees, c.chain) :
        d \in AttesterDutyLists(epoch, indices) \ {<<>>}, c \in MultiCases(epoch)}

\* a few of these answers: the duties query fails, or the window holds one
\* attestation with all bits of the two validators set
FewAttestationInputs(epoch, indices) ==
    {in \in AttestationInputs(epoch, indices) :
        \/ in.dutiesErr
        \/ /\ Len(in.duties) = Len(indices)
           /\ in.chain = OneBlock(StartSlot(epoch) + 1, FALSE,
                                  Attestation(StartSlot(epoch), <<3>>, <<17>>))
           /\ in.committees = FullMap(epoch, CanonLayout)}

checkAttestationsFrom(inputs) ==
    /\ pc = "attestations"
    /\ \E in \in inputs :
       LET slotAttestations == preloadSlotAttestations(in.chain,
                                   StartSlot(finalizedEpoch), EndSlot(finalizedEpoch))
       IN
       \E order \in ScanOrders(slotAttestations) :
         LET r == checkAttestationsResult(checkedEpochs, finalizedEpoch,
                      validatorIndices, in.dutiesErr, in.duties, in.commErr,
                      in.committees, in.chain, slotAttestations, order)
         IN  /\ checkedEpochs' = r.checkedEpochs
             /\ call' = [NoCall EXCEPT
                           !.fn = "checkAttestations",
                           !.movedBack = call.movedBack,
                           !.successes = call.successes,
                           !.lastBefore = lastFinalizedEpoch,
                           !.checkedBefore = checkedEpochs,
                           !.epoch = finalizedEpoch,
                           !.indices = validatorIndices,
                           !.dutiesErr = in.dutiesErr,
                           !.duties = in.duties,
                           !.commErr = in.commErr,
                           !.committees = in.committees,
                           !.chain = in.chain,
                           !.order = order,
                           !.attested = r.attested,
                           !.events = r.events,
                           !.queries = r.queries]
    /\ Return
    /\ UNCHANGED <<ValidatorIndices, lastFinalizedEpoch, tickerC, ctxDone,
                   finalizedEpoch, validatorIndices>>

checkAttestations ==
    checkAttestationsFrom(AttestationInputs(finalizedEpoch, validatorIndices))

checkAttestationsFew ==
    checkAttestationsFrom(FewAttestationInputs(finalizedEpoch, validatorIndices))

Next ==
    \/ Tick
    \/ Cancel
    \/ RunSelectTick
    \/ RunSelectDone
    \/ checkLatestFinalizedEpoch
    \/ checkProposals
    \/ checkAttestations

Spec == Init /\ [][Next]_vars

\* The loop with a few of the answers of the beacon node to the queries of
\* a pass, and with the progress the program has: the queries return, so a
\* running pass goes on; select takes one of the ready cases at random, so a
\* case that is ready again and again is taken in the end.
LoopNext ==
    \/ Tick
    \/ Cancel
    \/ RunSelectTick
    \/ RunSelectDone
    \/ checkLatestFinalizedEpoch
    \/ checkProposalsFew
    \/ checkAttestationsFew

FairLoopSpec ==
    /\ Init
    /\ [][LoopNext]_vars
    /\ WF_vars(checkLatestFinalizedEpoch)
    /\ WF_vars(checkProposalsFew)
    /\ WF_vars(checkAttestationsFew)
    /\ SF_vars(RunSelectDone)

\* ------------------------------------------------------------------------
\* Properties
\* ------------------------------------------------------------------------
IsVerdict(e) ==
    e.kind \in {"AttestationConfirmed", "AttestationMissed",
                "ProposalConfirmed", "ProposalMissed"}

Verdicts(events) == SelectSeq(events, IsVerdict)

\* the step of checkLatestFinalizedEpoch that queries the finalized epoch
FetchStep == pc = "fetch" /\ pc' # "fetch"

\* the validators of the tracked list whose recorded epoch is not e
NotCheckedFor(m, e) ==
    LET Test(v) == MapGet(m, v) # e
    IN  SelectSeq(ValidatorIndices, Test)

\* the inclusion window of epoch e, written out: 32e+1 .. 32e+63
InWindow(slot, e) == 32 * e + 1 <= slot /\ slot <= 32 * e + 63

\* what one attestation of the chain makes attested in the recorded pass
AttestedBy(att) ==
    ProcessAttestation(att, call.committees, Range(call.indices),
                       StartSlot(call.epoch), EndSlot(call.epoch)).attested

\* the validators whose bit is set in an attestation of a block for which
\* Keep(slot, block) holds
AttestedIn(Keep(_, _)) ==
    UNION {AttestedBy(call.chain[slot].atts[i]) :
             <<slot, i>> \in {<<sl, j>> \in (DOMAIN call.chain) \X (1..2) :
                                /\ Keep(sl, call.chain[sl])
                                /\ j <= Len(call.chain[sl].atts)}}

\* a pass of checkAttestations that went as far as the scan
ScannedPass ==
    /\ call.fn = "checkAttestations"
    /\ ~call.dutiesErr /\ call.duties # <<>> /\ ~call.commErr

\* C1: a failed finalized-epoch query leaves the last-observed epoch and the
\* tracking map as they were and ends the tick without a pass; and the
\* successful query that follows a failed one, when it answers an epoch E
\* other than the last-observed one, makes E the last-observed epoch and
\* runs the pass for E over the tracked validators not recorded for E.
C1_FailedFetchRetried ==
    [][FetchStep =>
         /\ call'.res.err =>
              /\ lastFinalizedEpoch' = lastFinalizedEpoch
              /\ checkedEpochs' = checkedEpochs
              /\ pc' = "idle"
              /\ Verdicts(call'.events) = <<>>
         /\ (call'.retry /\ ~call'.res.err /\ call'.res.val # lastFinalizedEpoch) =>
              /\ lastFinalizedEpoch' = call'.res.val
              /\ finalizedEpoch' = call'.res.val
              /\ validatorIndices' = NotCheckedFor(checkedEpochs, call'.res.val)
              /\ (pc' = "proposals") = (validatorIndices' # <<>>)
      ]_vars

C1_Witness ==
    /\ call.fn = "checkLatestFinalizedEpoch"
    /\ call.retry /\ ~call.res.err
    /\ call.res.val # call.lastBefore
    /\ lastFinalizedEpoch = call.res.val
    /\ pc = "proposals"

\* C2 as amended: a failed attester-duties or committees query leaves every
\* duty without verdict and the tracking map as it was; a failed
\* DidProposeBlock leaves its duty without verdict; a failed
\* GetBlockAttestations only takes its slot out of the scan: the attested
\* validators are those of the attestations in the blocks read, and each
\* duty whose validator is not among them is reported missed and marked.
C2_FailedQueries ==
    /\ (call.fn = "checkAttestations" /\ ~ScannedPass) =>
          /\ Verdicts(call.events) = <<>>
          /\ checkedEpochs = call.checkedBefore
    /\ call.fn = "checkProposals" =>
          \A i \in 1..Len(call.duties) :
             call.outcomes[i] = "err" =>
                \A k \in 1..Len(call.events) :
                   IsVerdict(call.events[k]) =>
                      call.events[k].validator # call.duties[i].ValidatorIndex
    /\ ScannedPass =>
          LET Read(slot, block) == InWindow(slot, call.epoch) /\ ~block.err
          IN  /\ call.attested = AttestedIn(Read)
              /\ \A i \in 1..Len(call.duties) :
                    call.duties[i].ValidatorIndex \notin call.attested =>
                       /\ Event("AttestationMissed", call.duties[i].ValidatorIndex,
                                call.duties[i].Slot) \in Range(call.events)
                       /\ MapGet(checkedEpochs, call.duties[i].ValidatorIndex)
                             = call.epoch

\* the validators whose bit is set only in attestations of a block of the
\* window whose query failed
LostToFailure ==
    LET Failed(slot, block) == InWindow(slot, call.epoch) /\ block.err
    IN  AttestedIn(Failed) \ call.attested

C2_Witness ==
    /\ ScannedPass
    /\ \E i \in 1..Len(call.duties) :
          /\ call.duties[i].ValidatorIndex \in LostToFailure
          /\ Event("AttestationMissed", call.duties[i].ValidatorIndex,
                   call.duties[i].Slot) \in Range(call.events)
          /\ MapGet(checkedEpochs, call.duties[i].ValidatorIndex) = call.epoch

\* C2 as stated: no duty is reported missed and marked because the
\* attestations of a slot whose query failed were not read.
C2_Original ==
    ScannedPass =>
       \A i \in 1..Len(call.duties) :
          call.duties[i].ValidatorIndex \in LostToFailure =>
             Event("AttestationMissed", call.duties[i].ValidatorIndex,
                   call.duties[i].Slot) \notin Range(call.events)

\* C3: when the attester duties and the committees were fetched, the
\* verdicts of the pass are one per duty, in the order of the duties:
\* confirmed if the duty's validator was recorded as attested, missed
\* otherwise; and the tracking map holds the epoch of the pass for the
\* validator of every duty.
C3_OneVerdictPerDuty ==
    (call.fn = "checkAttestations" /\ ~call.dutiesErr /\ ~call.commErr) =>
       /\ Len(Verdicts(call.events)) = Len(call.duties)
       /\ \A i \in 1..Len(call.duties) :
             LET v == call.duties[i].ValidatorIndex
             IN  /\ Verdicts(call.events)[i] =
                       Event(IF v \in call.attested THEN "AttestationConfirmed"
                             ELSE "AttestationMissed", v, call.duties[i].Slot)
                 /\ v \in DOMAIN checkedEpochs
                 /\ checkedEpochs[v] = call.epoch

C3_Witness ==
    /\ ScannedPass
    /\ Len(call.duties) = 2
    /\ call.attested = {call.duties[2].ValidatorIndex}
    /\ Verdicts(call.events)[1].kind = "AttestationMissed"
    /\ Verdicts(call.events)[2].kind = "AttestationConfirmed"

\* the committees an attestation aggregates, read off the bits one by one
AggregatedSet(att) ==
    {c \in 0..(8 * Len(att.CommitteeBits) - 1) : isBitSet(att.CommitteeBits, c)}

RECURSIVE SumLen(_, _)
SumLen(committees, S) ==
    IF S = {} THEN 0
    ELSE LET c == CHOOSE x \in S : TRUE
         IN  Len(committees[c]) + SumLen(committees, S \ {c})

\* the attestation's data slot is in the epoch, has committees, and every
\* aggregated committee is there and not empty
WellFormed(att) ==
    /\ StartSlot(call.epoch) <= att.DataSlot /\ att.DataSlot <= EndSlot(call.epoch)
    /\ att.DataSlot \in DOMAIN call.committees
    /\ \A c \in AggregatedSet(att) :
          /\ c \in DOMAIN call.committees[att.DataSlot]
          /\ Len(call.committees[att.DataSlot][c]) > 0

\* the tracked validators at a position (c, p) whose bit, at the sum of the
\* sizes of the lower aggregated committees plus p, is set
ExpectedAttested(att) ==
    LET committees == call.committees[att.DataSlot]
        agg        == AggregatedSet(att)
    IN  {v \in Range(call.indices) :
           \E c \in agg : \E p \in 0..(Len(committees[c]) - 1) :
              /\ committees[c][p + 1] = v
              /\ isBitSet(att.AggregationBits,
                          SumLen(committees, {d \in agg : d < c}) + p)}

\* C4: an attestation with its data slot in the epoch and all its aggregated
\* committees present and not empty records exactly the tracked validators
\* whose bit is set at (sum of the sizes of the aggregated committees of
\* lower index) + (local position); and a pass that read one such
\* attestation has recorded exactly these.
C4_BitOffsetMapping ==
    ScannedPass =>
       \A slot \in DOMAIN call.chain :
          \A i \in 1..Len(call.chain[slot].atts) :
             LET att == call.chain[slot].atts[i]
             IN  WellFormed(att) =>
                    /\ AttestedBy(att) = ExpectedAttested(att)
                    /\ (DOMAIN call.chain = {slot} /\ InWindow(slot, call.epoch)
                          /\ ~call.chain[slot].err) =>
                             call.attested = ExpectedAttested(att)

\* committees of sizes 3 and 5, both aggregated, bit 4 alone set: the
\* validator at committee 1, position 1
C4_Witness ==
    /\ ScannedPass
    /\ call.indices = <<1, 5>>
    /\ \E slot \in DOMAIN call.chain :
          /\ DOMAIN call.chain = {slot}
          /\ call.chain[slot].atts[1].CommitteeBits = <<3>>
          /\ call.chain[slot].atts[1].AggregationBits = <<16>>
          /\ call.committees[call.chain[slot].atts[1].DataSlot] = CanonLayout
    /\ call.attested = {5}

\* the pass read nothing but one block, with one attestation for the first
\* slot of the epoch with committees 0 and 1 and bits 0 and 4
OneFullAttestationAt(off) ==
    /\ ScannedPass
    /\ call.indices = <<1, 5>>
    /\ call.committees = FullMap(call.epoch, CanonLayout)
    /\ call.chain = OneBlock(StartSlot(call.epoch) + off, FALSE,
                             Attestation(StartSlot(call.epoch), <<3>>, <<17>>))

FilteredTick ==
    /\ call.fn = "checkLatestFinalizedEpoch"
    /\ ~call.res.err /\ call.res.val # call.lastBefore
    /\ ValidatorIndices # <<>>

\* C6: the filter returns exactly the validators whose recorded epoch is not
\* the epoch asked for, a validator that was never marked being always among
\* them, at epoch 0 as at any other epoch; and the tracking map is not
\* changed by it.
C6_FilterUnchecked ==
    FilteredTick =>
       LET Unchecked(v) == v \notin DOMAIN call.checkedBefore
                           \/ call.checkedBefore[v] # call.epoch
       IN  /\ call.indices = SelectSeq(ValidatorIndices, Unchecked)
           /\ checkedEpochs = call.checkedBefore

\* C7 as amended: once select has taken the cancellation case the loop is
\* terminated for good, with no pass running, and nothing of the checker
\* changes any more; the loop is terminated only through that case; and a
\* cancelled loop does terminate, the pass in flight and any tick that
\* select takes before the cancellation case being processed first.
C7_TerminatedAfterCancel ==
    /\ [][loop = "terminated" =>
             /\ loop' = "terminated"
             /\ UNCHANGED <<pc, inFlight, call, lastFinalizedEpoch, checkedEpochs,
                            tickerC>>]_vars
    /\ [][(loop # "terminated" /\ loop' = "terminated") =>
             ctxDone /\ pc = "idle" /\ inFlight = 0]_vars
    /\ (ctxDone ~> loop = "terminated")

C7_Witness == ctxDone /\ loop = "terminated" /\ tickerC = 1

\* C7 as stated: after the cancellation no tick is taken up and no
\* finalized-epoch query is made.
C7_Original ==
    [][ctxDone => ~(loop = "select" /\ loop' = "call") /\ ~FetchStep]_vars

\* C8: at most one invocation of checkLatestFinalizedEpoch runs; the loop is
\* inside that invocation for as long as it runs, so the next tick is taken
\* up only after it returned; and at most one tick waits, whatever the number
\* of ticks that fired meanwhile.
C8_OnePassInFlight ==
    /\ inFlight <= 1
    /\ (inFlight = 1) = (pc # "idle")
    /\ pc # "idle" => loop = "call"
    /\ loop = "select" => pc = "idle"
    /\ tickerC <= 1

C8_Witness == pc = "attestations" /\ inFlight = 1 /\ tickerC = 1

\* the verdicts of the proposer duties taken in the order perm
ProposalVerdictSet(duties, outcomes, perm) ==
    Range(Verdicts(ProposalEvents([i \in 1..Len(perm) |-> duties[perm[i]]],
                                  [i \in 1..Len(perm) |-> outcomes[perm[i]]])))

\* C9: each proposer duty has a confirmed verdict and no other if its query
\* answered true, a missed verdict and no other if it answered false, and no
\* verdict if the query failed, whatever happened to the duties before it;
\* and the set of verdicts is the same for the duties taken in any order.
C9_ProposalOutcomes ==
    (call.fn = "checkProposals" /\ ~call.dutiesErr) =>
       /\ \A i \in 1..Len(call.duties) :
             LET d    == call.duties[i]
                 mine == {e \in Range(call.events) :
                            IsVerdict(e) /\ e.validator = d.ValidatorIndex
                                         /\ e.slot = d.Slot}
             IN  mine = IF call.outcomes[i] = "true"
                        THEN {Event("ProposalConfirmed", d.ValidatorIndex, d.Slot)}
                        ELSE IF call.outcomes[i] = "false"
                        THEN {Event("ProposalMissed", d.ValidatorIndex, d.Slot)}
                        ELSE {}
       /\ Len(Verdicts(call.events)) =
             Cardinality({i \in 1..Len(call.duties) : call.outcomes[i] # "err"})
       /\ \A perm \in Perms(1..Len(call.duties)) :
             ProposalVerdictSet(call.duties, call.outcomes, perm)
                = Range(Verdicts(call.events))

C9_Witness ==
    /\ call.fn = "checkProposals"
    /\ call.outcomes = <<"err", "true">>
    /\ Verdicts(call.events) =
          <<Event("ProposalConfirmed", call.duties[2].ValidatorIndex,
                  call.duties[2].Slot)>>

\* C10: checkProposals leaves the tracking map as it was, whatever the
\* answers; and a step that changes the entry of a validator in the tracking
\* map is a step of checkAttestations that gives an attester verdict for
\* that validator.
C10_ProposalsLeaveTracking ==
    [][/\ (pc = "proposals" /\ pc' # "proposals") => checkedEpochs' = checkedEpochs
       /\ \A v \in (DOMAIN checkedEpochs) \cup (DOMAIN checkedEpochs') :
             (v \notin DOMAIN checkedEpochs
                \/ v \notin DOMAIN checkedEpochs'
                \/ checkedEpochs[v] # checkedEpochs'[v]) =>
                   /\ pc = "attestations"
                   /\ call'.fn = "checkAttestations"
                   /\ \E k \in 1..Len(call'.events) :
                         /\ call'.events[k].kind \in
                               {"AttestationConfirmed", "AttestationMissed"}
                         /\ call'.events[k].validator = v
      ]_vars

C10_Witness ==
    /\ call.fn = "checkProposals"
    /\ \E k \in 1..Len(call.events) :
          /\ call.events[k].kind = "ProposalConfirmed"
          /\ call.events[k].validator \notin DOMAIN checkedEpochs
    /\ \E k \in 1..Len(call.events) : call.events[k].kind = "ProposalMissed"
    /\ checkedEpochs = call.checkedBefore

\* the attestation's data slot is a slot of the epoch of the recorded pass
InEpoch(att) ==
    StartSlot(call.epoch) <= att.DataSlot /\ att.DataSlot <= EndSlot(call.epoch)

\* the diagnostics one attestation of the chain gives in the recorded pass
EventsOf(att) ==
    ProcessAttestation(att, call.committees, Range(call.indices),
                       StartSlot(call.epoch), EndSlot(call.epoch)).events

\* how many of the events are the event e
CountOf(events, e) == Cardinality({k \in 1..Len(events) : events[k] = e})

\* the pass read one block, in the window, and it holds one attestation
SoleAttestation(att) ==
    \E slot \in DOMAIN call.chain :
       /\ DOMAIN call.chain = {slot}
       /\ InWindow(slot, call.epoch)
       /\ call.chain[slot] = Block(FALSE, <<att>>)

\* C11: an attestation of the epoch whose data slot has no committees at
\* all gives one warning, that of the data slot, and records nobody; one
\* that aggregates a committee index the committees of its data slot do not
\* have gives exactly one committee-not-found warning naming that index and
\* that data slot; the
\* validators it records are members of the committees that are there, so no
\* validator whose duty is in the absent committee is recorded by it; and a
\* pass that read this attestation alone has that one warning and reports
\* each such duty missed.
C11_MissingCommittee ==
    ScannedPass =>
       \A slot \in DOMAIN call.chain :
          \A i \in 1..Len(call.chain[slot].atts) :
             LET att == call.chain[slot].atts[i]
                 here == IF att.DataSlot \in DOMAIN call.committees
                         THEN call.committees[att.DataSlot] ELSE EmptyMap
             IN  /\ (InEpoch(att) /\ att.DataSlot \notin DOMAIN call.committees
                        /\ AggregatedSet(att) # {}) =>
                       /\ EventsOf(att) =
                             <<Event("NoCommitteesForSlot", 0, att.DataSlot)>>
                       /\ AttestedBy(att) = {}
                 /\ (InEpoch(att) /\ att.DataSlot \in DOMAIN call.committees) =>
                    \A c \in AggregatedSet(att) \ DOMAIN here :
                       LET warning == Event("CommitteeNotFound", c, att.DataSlot)
                           absent == {k \in 1..Len(call.duties) :
                                        /\ call.duties[k].CommitteeIndex = c
                                        /\ call.duties[k].Slot = att.DataSlot}
                       IN  /\ CountOf(EventsOf(att), warning) = 1
                           /\ AttestedBy(att) \subseteq
                                 UNION {Range(here[d]) : d \in DOMAIN here}
                           /\ \A k \in absent :
                                 call.duties[k].ValidatorIndex \notin AttestedBy(att)
                           /\ SoleAttestation(att) =>
                                 /\ CountOf(call.events, warning) = 1
                                 /\ \A k \in absent :
                                       Event("AttestationMissed",
                                             call.duties[k].ValidatorIndex,
                                             call.duties[k].Slot)
                                          \in Range(call.events)

\* committee 0 is aggregated and absent; bit 0, the bit of validator 1 in
\* committee 0, is set; validator 1 is reported missed
C11_Witness ==
    /\ ScannedPass
    /\ call.committees = FullMap(call.epoch, MissingLayout)
    /\ \E att \in {call.chain[slot].atts[1] : slot \in DOMAIN call.chain} :
          /\ SoleAttestation(att)
          /\ att.CommitteeBits = <<3>>
          /\ isBitSet(att.AggregationBits, 0)
          /\ CountOf(call.events, Event("CommitteeNotFound", 0, att.DataSlot)) = 1
    /\ \E k \in 1..Len(call.duties) :
          /\ call.duties[k].ValidatorIndex = 1
          /\ call.duties[k].CommitteeIndex = 0
          /\ Event("AttestationMissed", 1, call.duties[k].Slot) \in Range(call.events)

\* every byte of the attestation's CommitteeBits is zero
NoCommitteeBit(att) ==
    \A i \in 1..Len(att.CommitteeBits) : att.CommitteeBits[i] = 0

\* the events of the recorded pass that are not verdicts
Diagnostics(events) ==
    LET NotVerdict(e) == ~IsVerdict(e)
    IN  SelectSeq(events, NotVerdict)

\* C12 as amended: an attestation whose CommitteeBits has no bit set records
\* no validator; it gives no event when its data slot is outside the epoch,
\* and none when its data slot has an entry in EpochCommittees; when its data
\* slot is in the epoch and has no entry there, it gives the one warning that
\* the data slot has no committees, as any attestation for that slot does.
C12_ZeroCommitteeBits ==
    ScannedPass =>
       \A slot \in DOMAIN call.chain :
          \A i \in 1..Len(call.chain[slot].atts) :
             LET att == call.chain[slot].atts[i]
                 expected == IF InEpoch(att) /\ att.DataSlot \notin DOMAIN call.committees
                             THEN <<Event("NoCommitteesForSlot", 0, att.DataSlot)>>
                             ELSE <<>>
             IN  NoCommitteeBit(att) =>
                    /\ AttestedBy(att) = {}
                    /\ EventsOf(att) = expected
                    /\ SoleAttestation(att) =>
                          /\ call.attested = {}
                          /\ Diagnostics(call.events) = expected

\* the pass read one attestation, it has no committee bit, and its data slot
\* is in the epoch
SoleZeroBitsAttestation ==
    /\ ScannedPass
    /\ \E slot \in DOMAIN call.chain :
          /\ SoleAttestation(call.chain[slot].atts[1])
          /\ NoCommitteeBit(call.chain[slot].atts[1])
          /\ InEpoch(call.chain[slot].atts[1])

C12_Witness ==
    /\ SoleZeroBitsAttestation
    /\ call.committees = EmptyMap
    /\ Len(Diagnostics(call.events)) = 1
    /\ Diagnostics(call.events)[1].kind = "NoCommitteesForSlot"

\* C12 as stated: the attestation without committee bits gives no event,
\* whether or not EpochCommittees has an entry for its data slot.
C12_Original ==
    SoleZeroBitsAttestation => Diagnostics(call.events) = <<>>

\* the validators the step writes in the tracking map: those of the duties
\* of a pass of checkAttestations that went as far as its step 6
WrittenByStep ==
    IF pc = "attestations" /\ pc' = "idle" /\ ScannedPass'
    THEN {call'.duties[k].ValidatorIndex : k \in 1..Len(call'.duties)}
    ELSE {}

\* C13 as amended: no entry of the tracking map is ever removed; a step
\* writes the entries of the validators that get an attester verdict and no
\* other, and every write sets the entry to the epoch of the pass in
\* progress, which is the last-observed epoch, whatever the entry was; so an
\* entry is replaced by a lower epoch exactly when the pass in progress is for
\* an epoch below it, the finalized epoch having moved back.
C13_TrackingWrites ==
    [][/\ DOMAIN checkedEpochs \subseteq DOMAIN checkedEpochs'
       /\ WrittenByStep \subseteq DOMAIN checkedEpochs'
       /\ \A v \in DOMAIN checkedEpochs' :
             IF v \in WrittenByStep
             THEN /\ checkedEpochs'[v] = finalizedEpoch
                  /\ finalizedEpoch = lastFinalizedEpoch
             ELSE /\ v \in DOMAIN checkedEpochs
                  /\ checkedEpochs'[v] = checkedEpochs[v]
       /\ \A v \in DOMAIN checkedEpochs :
             (checkedEpochs'[v] < checkedEpochs[v]) =
                (v \in WrittenByStep /\ lastFinalizedEpoch < checkedEpochs[v])
      ]_vars

\* a pass for epoch 0 has given their verdicts to validators recorded for
\* epoch 1
C13_Witness ==
    /\ ScannedPass
    /\ pc = "idle"
    /\ call.epoch = 0
    /\ \E k \in 1..Len(call.duties) :
          LET v == call.duties[k].ValidatorIndex
          IN  /\ v \in DOMAIN call.checkedBefore
              /\ call.checkedBefore[v] = 1
              /\ checkedEpochs[v] = 0

\* C13 as stated: every write sets the entry to the epoch of the pass in
\* progress, and no entry is ever replaced by a lower epoch.
C13_Original ==
    [][/\ \A v \in WrittenByStep : checkedEpochs'[v] = finalizedEpoch
       /\ \A v \in DOMAIN checkedEpochs :
             /\ v \in DOMAIN checkedEpochs'
             /\ checkedEpochs'[v] >= checkedEpochs[v]
      ]_vars

\* markCheckedThisEpoch applied for every validator of the list, in order
RECURSIVE MarkAll(_, _, _)
MarkAll(m, indices, epoch) ==
    IF indices = <<>> THEN m
    ELSE MarkAll(markCheckedThisEpoch(m, Head(indices), epoch), Tail(indices), epoch)

\* the validators of the duties of the recorded pass, in the order of the
\* duties
DutyValidators == [k \in 1..Len(call.duties) |-> call.duties[k].ValidatorIndex]

\* C14: on every tracking map the checker reaches, marking a validator for
\* an epoch gives a map with that validator at that epoch, whatever it had
\* before, and all other entries as they were, and marking it again changes
\* nothing; after marking every validator of the tracked list for an epoch,
\* the filter for that list and epoch is empty; so it is after the marks of a
\* pass, for the validators of its duties, and a tick that finds every
\* tracked validator recorded for the new epoch has nothing left to check.
C14_MarkThenFilter ==
    /\ \A E \in 0..MaxEpoch :
          /\ \A v \in Range(ValidatorIndices) \cup {0} :
                LET once  == markCheckedThisEpoch(checkedEpochs, v, E)
                    twice == markCheckedThisEpoch(once, v, E)
                IN  /\ twice = once
                    /\ DOMAIN once = (DOMAIN checkedEpochs) \cup {v}
                    /\ once[v] = E
                    /\ \A w \in (DOMAIN checkedEpochs) \ {v} :
                          once[w] = checkedEpochs[w]
          /\ getValidatorsToCheck(MarkAll(checkedEpochs, ValidatorIndices, E),
                                  ValidatorIndices, E) = <<>>
    /\ (ScannedPass /\ pc = "idle") =>
          getValidatorsToCheck(checkedEpochs, DutyValidators, call.epoch) = <<>>
    /\ (FilteredTick /\ \A v \in Range(ValidatorIndices) :
                           /\ v \in DOMAIN call.checkedBefore
                           /\ call.checkedBefore[v] = call.epoch) =>
          call.indices = <<>>

\* the finalized epoch is back at 1 after the pass for epoch 1 marked both
\* validators: the filter leaves nothing
C14_Witness ==
    /\ FilteredTick
    /\ call.epoch = 1
    /\ \A v \in Range(ValidatorIndices) :
          v \in DOMAIN call.checkedBefore /\ call.checkedBefore[v] = 1
    /\ call.indices = <<>>

\* C15: the step of a tick whose finalized-epoch query succeeds with the
\* last-observed epoch ends the tick: GetFinalizedEpoch is the only query,
\* there is no event, no validator is handed to a pass, the last-observed
\* epoch and the tracking map are as before, and the loop is back at its
\* select.
C15_UnchangedEpochTick ==
    [][(FetchStep /\ ~call'.res.err /\ call'.res.val = lastFinalizedEpoch) =>
          /\ pc' = "idle" /\ loop' = "select" /\ inFlight' = 0
          /\ call'.queries = <<Query("GetFinalizedEpoch", 0)>>
          /\ call'.events = <<>>
          /\ call'.indices = <<>> /\ validatorIndices' = <<>>
          /\ lastFinalizedEpoch' = lastFinalizedEpoch
          /\ checkedEpochs' = checkedEpochs
      ]_vars

\* epoch 1 is answered again while tracked validators are not recorded for
\* it: the tick does nothing
C15_Witness ==
    /\ call.fn = "checkLatestFinalizedEpoch"
    /\ ~call.res.err
    /\ call.res.val = call.lastBefore /\ call.lastBefore = 1
    /\ NotCheckedFor(checkedEpochs, 1) # <<>>
    /\ call.queries = <<Query("GetFinalizedEpoch", 0)>>
    /\ pc = "idle" /\ lastFinalizedEpoch = 1

\* C16: with no tracked validator the checker never leaves the finalized-
\* epoch step: GetFinalizedEpoch is the only query ever made, there is no
\* verdict, and the tracking map stays empty; the tick that finds a new
\* epoch makes it the last-observed epoch and returns to the select of the
\* loop.
C16_EmptyTrackedSet ==
    /\ [](ValidatorIndices = <<>> =>
             /\ checkedEpochs = EmptyMap
             /\ pc \in {"idle", "fetch"}
             /\ call.fn \in {"none", "checkLatestFinalizedEpoch"}
             /\ Verdicts(call.events) = <<>>
             /\ \A k \in 1..Len(call.queries) :
                   call.queries[k].op = "GetFinalizedEpoch")
    /\ [][(ValidatorIndices = <<>> /\ FetchStep /\ ~call'.res.err
              /\ call'.res.val # lastFinalizedEpoch) =>
             /\ lastFinalizedEpoch' = call'.res.val
             /\ pc' = "idle" /\ loop' = "select"
             /\ call'.queries = <<Query("GetFinalizedEpoch", 0)>>
             /\ call'.events = <<>>
             /\ checkedEpochs' = EmptyMap
          ]_vars

C16_Witness ==
    /\ ValidatorIndices = <<>>
    /\ call.fn = "checkLatestFinalizedEpoch"
    /\ ~call.res.err /\ call.res.val = 1 /\ call.lastBefore = 0
    /\ lastFinalizedEpoch = 1
    /\ pc = "idle" /\ loop = "select"

\* C17: the loop becomes terminated only by a step of its select with the
\* context cancelled, never by a step of a pass and never while a pass runs;
\* while the context is not cancelled the loop is not terminated; every pass
\* that ends, whatever its queries answered, leaves the loop at its select
\* with no pass running; and at the select a waiting tick can be taken.
C17_OnlyCancelTerminates ==
    /\ [][(loop # "terminated" /\ loop' = "terminated") =>
             /\ loop = "select" /\ pc = "idle" /\ ctxDone
             /\ call' = call /\ checkedEpochs' = checkedEpochs]_vars
    /\ [](~ctxDone => loop # "terminated")
    /\ [][(pc # "idle" /\ pc' = "idle") =>
             /\ loop' = "select" /\ inFlight' = 0
             /\ call'.fn \in {"checkLatestFinalizedEpoch", "checkAttestations"}]_vars
    /\ []((loop = "select" /\ tickerC > 0) => ENABLED RunSelectTick)

\* the committees query of a pass failed, and the loop took the next tick
C17_Witness ==
    /\ call.fn = "checkAttestations"
    /\ call.commErr
    /\ loop = "call" /\ pc = "fetch"

\* the attestation matches the duty: it is for the duty's slot, it
\* aggregates the duty's committee, and the bit at (sizes of the aggregated
\* committees of lower index that the data slot has) + (the duty's position
\* in its committee) is set
MatchesDuty(att, duty) ==
    /\ att.DataSlot = duty.Slot
    /\ isBitSet(att.CommitteeBits, duty.CommitteeIndex)
    /\ att.DataSlot \in DOMAIN call.committees
    /\ LET committees == call.committees[att.DataSlot]
           lower == {c \in AggregatedSet(att) \cap DOMAIN committees :
                       c < duty.CommitteeIndex}
       IN  isBitSet(att.AggregationBits,
                    SumLen(committees, lower) + duty.ValidatorCommitteeIdx)

\* the attestations of the blocks the recorded pass has read
ReadAttestations ==
    UNION {Range(call.chain[slot].atts) :
             slot \in {sl \in DOMAIN call.chain :
                          InWindow(sl, call.epoch) /\ ~call.chain[sl].err}}

\* C18: a duty is reported attested only if one of the attestations read
\* matches that duty.
C18_DutyMatched ==
    ScannedPass =>
       \A k \in 1..Len(call.duties) :
          Event("AttestationConfirmed", call.duties[k].ValidatorIndex,
                call.duties[k].Slot) \in Range(call.events) =>
             \E att \in ReadAttestations : MatchesDuty(att, call.duties[k])

\* the bitfields of the attestations of the recorded chain
BitfieldsSeen ==
    UNION {UNION {{call.chain[slot].atts[i].CommitteeBits,
                   call.chain[slot].atts[i].AggregationBits} :
                     i \in 1..Len(call.chain[slot].atts)} :
             slot \in DOMAIN call.chain}

\* the places of the ones in the binary notation of b, the lowest being
\* place k, found by halving
RECURSIVE BinaryOnes(_, _)
BinaryOnes(b, k) ==
    IF b = 0 THEN {}
    ELSE (IF b % 2 = 1 THEN {k} ELSE {}) \cup BinaryOnes(b \div 2, k + 1)

\* the indices of the bits set in the bitfield B: bit (i mod 8) of byte
\* (i div 8)
OnesOf(B) == UNION {BinaryOnes(B[j], 8 * (j - 1)) : j \in 1..Len(B)}

\* C19: for every bitfield the pass decodes, isBitSet is FALSE at every
\* index from 8 * len on, and elsewhere tells bit (i mod 8) of byte
\* (i div 8); getTrueBitIndices lists exactly the indices at which isBitSet
\* holds, each once, in strictly ascending order; and it is empty for the
\* empty bitfield.
C19_BitfieldCodec ==
    \A B \in BitfieldsSeen :
       LET t == getTrueBitIndices(B)
       IN  /\ \A i \in (8 * Len(B))..(8 * Len(B) + 16) : ~isBitSet(B, i)
           /\ \A i \in 0..(8 * Len(B) - 1) : isBitSet(B, i) = (i \in OnesOf(B))
           /\ Range(t) = {i \in 0..(8 * Len(B) + 16) : isBitSet(B, i)}
           /\ Len(t) = Cardinality(OnesOf(B))
           /\ \A j \in 1..(Len(t) - 1) : t[j] < t[j + 1]
           /\ B = <<>> => t = <<>>

\* the pass decoded the two-byte bitfield with bits 0, 4, 7 and 9 set and
\* found the validators at bits 0 and 4
C19_Witness ==
    /\ ScannedPass
    /\ <<145, 2>> \in BitfieldsSeen
    /\ getTrueBitIndices(<<145, 2>>) = <<0, 4, 7, 9>>
    /\ ~isBitSet(<<145, 2>>, 16)
    /\ call.attested = {1, 5}

\* the operations of the beacon node by side
ProposerOps == {"GetProposerDuties", "DidProposeBlock"}

AttesterOps == {"GetValidatorDutiesBatch", "GetEpochCommittees", "GetBlockAttestations"}

ProposerKinds ==
    {"ProposerDutiesQueryError", "NoProposerDuties", "ProposalQueryError",
     "ProposalConfirmed", "ProposalMissed"}

OpsOf(queries) == {queries[k].op : k \in 1..Len(queries)}

KindsOf(events) == {events[k].kind : k \in 1..Len(events)}

\* C20: a tick that goes on to a pass goes to checkProposals, with the
\* validators the filter left; the step of checkProposals makes proposer
\* queries and gives proposer events only, and whatever the answers (the
\* duties query failed, no duty, failed DidProposeBlock queries) the pass is
\* at checkAttestations after it, for the same epoch and validators; the
\* step of checkAttestations comes right after that of checkProposals, can
\* be taken, and makes attester queries and gives attester events only.
C20_ProposalsThenAttestations ==
    /\ [][(FetchStep /\ pc' # "idle") =>
             pc' = "proposals" /\ validatorIndices' # <<>>]_vars
    /\ [][(pc = "proposals" /\ pc' # "proposals") =>
             /\ pc' = "attestations"
             /\ call'.fn = "checkProposals"
             /\ OpsOf(call'.queries) \subseteq ProposerOps
             /\ KindsOf(call'.events) \subseteq ProposerKinds
             /\ UNCHANGED <<finalizedEpoch, validatorIndices, lastFinalizedEpoch>>
          ]_vars
    /\ [][(pc = "attestations" /\ pc' # "attestations") =>
             /\ call.fn = "checkProposals"
             /\ call'.fn = "checkAttestations"
             /\ call'.epoch = call.epoch /\ call'.indices = call.indices
             /\ OpsOf(call'.queries) \subseteq AttesterOps
             /\ KindsOf(call'.events) \cap ProposerKinds = {}
          ]_vars
    /\ [](pc = "attestations" =>
             /\ call.fn = "checkProposals"
             /\ call.epoch = finalizedEpoch /\ call.indices = validatorIndices
             /\ ENABLED checkAttestations)
    /\ [](call.fn = "checkProposals" => pc = "attestations")

\* the proposer-duties query failed and the pass is at checkAttestations
C20_Witness ==
    /\ pc = "attestations"
    /\ call.fn = "checkProposals"
    /\ call.dutiesErr
    /\ call.events = <<Event("ProposerDutiesQueryError", 0, 0)>>
    /\ validatorIndices = <<1, 5>>

\* the places (block slot, position) of the attestations the recorded pass
\* has read
ReadPlaces ==
    {pl \in (DOMAIN call.chain) \X (1..2) :
        /\ InWindow(pl[1], call.epoch)
        /\ ~call.chain[pl[1]].err
        /\ pl[2] <= Len(call.chain[pl[1]].atts)}

AttAt(pl) == call.chain[pl[1]].atts[pl[2]]

\* the attestation's data slot is in the epoch and has no committees
NoEntry(att) == InEpoch(att) /\ att.DataSlot \notin DOMAIN call.committees

ScanKinds == {"NoCommitteesForSlot", "CommitteeNotFound"}

\* C21: the validators a pass records are those of the attestations read
\* whose data slot is a slot of the epoch and has committees; an attestation
\* read with a data slot outside the epoch gives neither a record nor an
\* event; one with a data slot of the epoch that has no committees gives one
\* warning naming that slot and no record, and the pass has as many of these
\* warnings as it read such attestations, the other attestations being
\* decoded all the same.
C21_DataSlotInEpoch ==
    ScannedPass =>
       LET decoded == {pl \in ReadPlaces : InEpoch(AttAt(pl)) /\ ~NoEntry(AttAt(pl))}
           warned  == {pl \in ReadPlaces : NoEntry(AttAt(pl))}
       IN  /\ call.attested = UNION {AttestedBy(AttAt(pl)) : pl \in decoded}
           /\ \A pl \in ReadPlaces \ (decoded \cup warned) :
                 AttestedBy(AttAt(pl)) = {} /\ EventsOf(AttAt(pl)) = <<>>
           /\ \A pl \in warned :
                 /\ AttestedBy(AttAt(pl)) = {}
                 /\ EventsOf(AttAt(pl)) =
                       <<Event("NoCommitteesForSlot", 0, AttAt(pl).DataSlot)>>
           /\ Cardinality({k \in 1..Len(call.events) :
                              call.events[k].kind = "NoCommitteesForSlot"})
                 = Cardinality(warned)
           /\ (decoded \cup warned = {}) =>
                 /\ call.attested = {}
                 /\ KindsOf(call.events) \cap ScanKinds = {}

\* the first attestation of a block has a data slot without committees and
\* is skipped with its warning; those after it are decoded
C21_Witness ==
    /\ ScannedPass
    /\ call.indices = <<1, 5>>
    /\ \E slot \in DOMAIN call.chain :
          /\ Len(call.chain[slot].atts) = 2
          /\ NoEntry(call.chain[slot].atts[1])
          /\ isBitSet(call.chain[slot].atts[1].AggregationBits, 0)
          /\ ~NoEntry(call.chain[slot].atts[2])
    /\ CountOf(call.events, Event("NoCommitteesForSlot", 0, StartSlot(call.epoch))) = 1
    /\ call.attested = {1, 5}

\* the aggregated committees of the attestation that its data slot has,
\* with at least one validator: those the walk processes
ProcessedSet(att) ==
    {c \in AggregatedSet(att) \cap DOMAIN call.committees[att.DataSlot] :
        Len(call.committees[att.DataSlot][c]) > 0}

\* the running offset at which committee c is decoded: the sum of the list
\* lengths of the committees processed before it
OffsetOf(att, c) ==
    SumLen(call.committees[att.DataSlot], {d \in ProcessedSet(att) : d < c})

\* C22: in an attestation that is decoded, an aggregated committee that is
\* missing or empty gives its warning and nothing else, and the others are
\* all processed: committee c, at the offset that is the sum of the list
\* lengths of the committees processed before it (the skipped ones counting
\* for nothing), records the tracked validators at the positions p whose bit
\* offset + p is set; a pass that read this attestation alone has recorded
\* exactly these.
C22_SkippedCommitteeOffset ==
    ScannedPass =>
       \A pl \in ReadPlaces :
          LET att == AttAt(pl)
          IN  (InEpoch(att) /\ ~NoEntry(att)) =>
                 LET committees == call.committees[att.DataSlot]
                     expected ==
                        {v \in Range(call.indices) :
                           \E c \in ProcessedSet(att) :
                              \E p \in 0..(Len(committees[c]) - 1) :
                                 /\ committees[c][p + 1] = v
                                 /\ isBitSet(att.AggregationBits, OffsetOf(att, c) + p)}
                 IN  /\ AttestedBy(att) = expected
                     /\ KindsOf(EventsOf(att)) \subseteq {"CommitteeNotFound"}
                     /\ \A c \in AggregatedSet(att) :
                           CountOf(EventsOf(att),
                                   Event("CommitteeNotFound", c, att.DataSlot))
                              = IF c \in ProcessedSet(att) THEN 0 ELSE 1
                     /\ SoleAttestation(att) => call.attested = expected

\* committee 0 is aggregated and skipped; committee 1 is decoded from offset
\* 0, so that bit 1 records validator 5, its second member
C22_Witness ==
    /\ ScannedPass
    /\ call.indices = <<1, 5>>
    /\ \E pl \in ReadPlaces :
          /\ SoleAttestation(AttAt(pl))
          /\ AttAt(pl).CommitteeBits = <<3>>
          /\ AttAt(pl).AggregationBits = <<2>>
          /\ InEpoch(AttAt(pl)) /\ ~NoEntry(AttAt(pl))
          /\ ProcessedSet(AttAt(pl)) = {1}
          /\ call.committees[AttAt(pl).DataSlot][1] = <<4, 5, 6, 7, 8>>
    /\ call.attested = {5}

\* a pass of checkAttestations that failed before its scan
FailedPass == call.fn = "checkAttestations" /\ ~ScannedPass

\* C23: after a pass for E that failed at the attester duties (query failed,
\* or no duty) or at the committees query, the last-observed epoch is E,
\* there is no attester verdict, and the tracking map is as it was before
\* the pass, the validators of the pass not being recorded for E by it; and
\* for as long as the finalized-epoch query then fails or answers E, every
\* tick ends at that query: no validator is handed to a pass, nothing is
\* recorded, the last-observed epoch stays E.
C23_FailedPassNotRetried ==
    /\ FailedPass =>
          /\ lastFinalizedEpoch = call.epoch
          /\ Verdicts(call.events) = <<>>
          /\ checkedEpochs = call.checkedBefore
          /\ \A v \in Range(call.indices) : MapGet(checkedEpochs, v) # call.epoch
                                               \/ call.epoch = 0
          /\ pc = "idle" \/ pc = "fetch"
    /\ (call.fn = "checkLatestFinalizedEpoch" /\ call.stale) =>
          /\ call.res.err \/ call.res.val = lastFinalizedEpoch
          /\ lastFinalizedEpoch = call.lastBefore
          /\ checkedEpochs = call.checkedBefore
          /\ call.indices = <<>>
          /\ Verdicts(call.events) = <<>>
          /\ OpsOf(call.queries) = {"GetFinalizedEpoch"}
          /\ pc = "idle" \/ pc = "fetch"

\* the pass for epoch 1 failed, epoch 1 is answered again, and the tick
\* ends with both validators still not recorded for epoch 1
C23_Witness ==
    /\ call.fn = "checkLatestFinalizedEpoch"
    /\ call.stale
    /\ ~call.res.err /\ call.res.val = 1
    /\ lastFinalizedEpoch = 1
    /\ NotCheckedFor(checkedEpochs, 1) = <<1, 5>>
    /\ pc = "idle"

FlippedBlocks(F) ==
    LET sa == preloadSlotAttestations(call.chain, StartSlot(call.epoch),
                                      EndSlot(call.epoch))
    IN  [s \in DOMAIN sa |-> IF s \in F THEN Reverse(sa[s]) ELSE sa[s]]

\* what a scan of the blocks of the recorded pass records when it visits the
\* blocks in this order, those of F attestation by attestation backwards
AttestedInOrder(order, F) ==
    ScanAttestations(order, FlippedBlocks(F), call.committees, Range(call.indices),
                     StartSlot(call.epoch), EndSlot(call.epoch)).attested

\* C25: the set recorded by a pass is the set recorded by a scan of the same
\* blocks in any other order of the blocks and of the attestations inside
\* each block, the verdicts of the pass are those that follow from any of
\* these scans, and the recorded set lies inside the validators given to
\* the pass.
C25_ScanOrderIrrelevant ==
    ScannedPass =>
       LET read == FlippedBlocks({})
       IN  /\ \A order \in ScanOrders(read) :
                 \A F \in SUBSET {s \in DOMAIN read : Len(read[s]) > 1} :
                    LET attested == AttestedInOrder(order, F)
                    IN  /\ attested = call.attested
                        /\ ResolveDuties(call.duties, attested, call.epoch,
                                         call.checkedBefore).events
                             = Verdicts(call.events)
           /\ call.attested \subseteq Range(call.indices)

\* a pass visited the later of two blocks first, one of them holding two
\* attestations, and recorded both tracked validators
C25_Witness ==
    /\ ScannedPass
    /\ Len(call.order) = 2
    /\ call.order[1] > call.order[2]
    /\ Len(call.chain[call.order[2]].atts) = 2
    /\ call.attested = {1, 5}
    /\ Len(Verdicts(call.events)) = 2

\* the arguments of the queries of this operation, in the order of the calls
ArgsOf(queries, op) ==
    LET Is(q) == q.op = op
        sel   == SelectSeq(queries, Is)
    IN  [k \in 1..Len(sel) |-> sel[k].arg]

\* C26: until the finalized-epoch query is answered the last-observed epoch
\* is 0 and the tracking map is empty. The first answer finds 0 as the
\* last-observed epoch: when it is 0 the tick ends there, with no pass and
\* no other query; when it is another epoch E, E becomes the last-observed
\* epoch and the whole tracked list is given to the pass for E, which starts
\* at checkProposals when the list is not empty. In that pass the proposer
\* duties, attester duties and committees queries are made for E, and a pass
\* that gets to the preload queries the block attestations of the slots
\* 32E+1 .. 32E+63, each once, in ascending order.
C26_FirstTick ==
    /\ call.successes = 0 =>
          /\ lastFinalizedEpoch = 0
          /\ checkedEpochs = EmptyMap
          /\ pc = "idle" \/ pc = "fetch"
          /\ Verdicts(call.events) = <<>>
    /\ (call.successes = 1 /\ call.fn = "checkLatestFinalizedEpoch" /\ ~call.res.err) =>
          /\ call.lastBefore = 0
          /\ call.checkedBefore = EmptyMap
          /\ lastFinalizedEpoch = call.res.val
          /\ call.res.val = 0 =>
                /\ call.indices = <<>>
                /\ pc = "idle" \/ pc = "fetch"
                /\ checkedEpochs = EmptyMap
                /\ OpsOf(call.queries) = {"GetFinalizedEpoch"}
          /\ call.res.val # 0 =>
                /\ call.indices = ValidatorIndices
                /\ ValidatorIndices # <<>> =>
                      /\ pc = "proposals"
                      /\ finalizedEpoch = call.res.val
                      /\ validatorIndices = ValidatorIndices
    /\ (call.successes = 1 /\ call.fn \in {"checkProposals", "checkAttestations"}) =>
          /\ call.epoch # 0
          /\ call.epoch = lastFinalizedEpoch
          /\ call.epoch = finalizedEpoch
          /\ call.indices = ValidatorIndices
          /\ \A k \in 1..Len(call.queries) :
                call.queries[k].op \in {"GetProposerDuties", "GetValidatorDutiesBatch",
                                        "GetEpochCommittees"}
                   => call.queries[k].arg = call.epoch
          /\ call.fn = "checkProposals" =>
                ArgsOf(call.queries, "GetProposerDuties") = <<call.epoch>>
          /\ call.fn = "checkAttestations" =>
                ArgsOf(call.queries, "GetValidatorDutiesBatch") = <<call.epoch>>
          /\ ScannedPass =>
                /\ ArgsOf(call.queries, "GetEpochCommittees") = <<call.epoch>>
                /\ ArgsOf(call.queries, "GetBlockAttestations")
                     = [i \in 1..63 |-> 32 * call.epoch + i]
          /\ (call.fn = "checkAttestations" /\ ~ScannedPass) =>
                ArgsOf(call.queries, "GetBlockAttestations") = <<>>

\* the first answer of the finalized-epoch query was epoch 1 and the pass
\* that followed scanned the window of epoch 1
C26_Witness ==
    /\ call.successes = 1
    /\ ScannedPass
    /\ call.epoch = 1
    /\ call.indices = <<1, 5>>
    /\ Len(ArgsOf(call.queries, "GetBlockAttestations")) = 63

====
